---- MODULE Spec2Model ----
(***************************************************************************)
(* The chess rules engine of ChessEngine.py (GameState, Move) and the part *)
(* of the driver loop of ChessMain.py that calls it.                       *)
(*                                                                         *)
(* Squares are (row, col) with row 0 the black back rank; a piece is the   *)
(* two-character string of the source ("wK", "bp", ...), "--" is empty.    *)
(* Python tuples are TLA+ tuples, so t[0] of the source is t[1] here.      *)
(***************************************************************************)
EXTENDS Integers, Sequences, FiniteSets, TLC

VARIABLES
    board,              \* GameState.board: [0..7 -> [0..7 -> piece]]
    whiteToMove,        \* GameState.whiteToMove
    moveLog,            \* GameState.moveLog
    whiteKingLocation,  \* GameState.whiteKingLocation
    blackKingLocation,  \* GameState.blackKingLocation
    inCheck,            \* GameState.inCheck
    pins,               \* GameState.pins
    checks,             \* GameState.checks
    validMoves,         \* main(): validMoves, the last getValidMoves result
    moveMade,           \* main(): moveMade
    error               \* "" or the exception that ended the program

vars == <<board, whiteToMove, moveLog, whiteKingLocation, blackKingLocation,
          inCheck, pins, checks, validMoves, moveMade, error>>

---------------------------------------------------------------------------
(* Pieces and board access *)

\* A call's result held in a local variable is written
\*     CHOOSE y \in {F(x) : x \in {call}} : TRUE
\* which is F(call) with the call evaluated once.

\* endPiece[0]: the colour character of a square's content
PieceColor(p) ==
    IF p \in {"wp", "wR", "wN", "wB", "wQ", "wK"} THEN "w"
    ELSE IF p = "--" THEN "-" ELSE "b"

\* endPiece[1]: the type character of a square's content
PieceType(p) ==
    IF p \in {"wp", "bp"} THEN "p"
    ELSE IF p \in {"wR", "bR"} THEN "R"
    ELSE IF p \in {"wN", "bN"} THEN "N"
    ELSE IF p \in {"wB", "bB"} THEN "B"
    ELSE IF p \in {"wQ", "bQ"} THEN "Q"
    ELSE IF p \in {"wK", "bK"} THEN "K" ELSE "-"

\* 0 <= endRow < 8 and 0 <= endCol < 8
OnBoard(r, c) == 0 <= r /\ r < 8 /\ 0 <= c /\ c < 8

\* A Python list index: a negative index counts from the end of the list.
PyIndex(i) == IF i < 0 THEN i + 8 ELSE i

\* board[r][c] as Python reads it, for -8 <= r, c < 8
PyGet(b, r, c) == b[PyIndex(r)][PyIndex(c)]

\* board[r][c] = p as Python writes it
PySet(b, r, c, p) ==
    [b EXCEPT ![PyIndex(r)] = [@ EXCEPT ![PyIndex(c)] = p]]

InitialBoard ==
    LET rows == << <<"bR", "bN", "bB", "bQ", "bK", "bB", "bN", "bR">>,
                   <<"bp", "bp", "bp", "bp", "bp", "bp", "bp", "bp">>,
                   <<"--", "--", "--", "--", "--", "--", "--", "--">>,
                   <<"--", "--", "--", "--", "--", "--", "--", "--">>,
                   <<"--", "--", "--", "--", "--", "--", "--", "--">>,
                   <<"--", "--", "--", "--", "--", "--", "--", "--">>,
                   <<"wp", "wp", "wp", "wp", "wp", "wp", "wp", "wp">>,
                   <<"wR", "wN", "wB", "wQ", "wK", "wB", "wN", "wR">> >>
    IN [r \in 0..7 |-> [c \in 0..7 |-> rows[r + 1][c + 1]]]

---------------------------------------------------------------------------
(* class Move *)

\* Move.__init__ with the end column weighted 10 in moveID, as the start row is
MoveWeakID(startRow, startCol, endRow, endCol, b) ==
    [startRow |-> startRow, startCol |-> startCol,
     endRow |-> endRow, endCol |-> endCol,
     pieceMoved |-> PyGet(b, startRow, startCol),
     pieceCaptured |-> PyGet(b, endRow, endCol),
     moveID |-> endRow * 1000 + endCol * 10 + startRow * 10 + startCol]

\* Move.__init__(startSq, endSq, board)
Move(startRow, startCol, endRow, endCol, b) ==
    [startRow |-> startRow, startCol |-> startCol,
     endRow |-> endRow, endCol |-> endCol,
     pieceMoved |-> PyGet(b, startRow, startCol),
     pieceCaptured |-> PyGet(b, endRow, endCol),
     moveID |-> endRow * 1000 + endCol * 100 + startRow * 10 + startCol]

\* Move.__eq__
MoveEq(m1, m2) == m1.moveID = m2.moveID

\* Move.ranksToRows and Move.rowsToRanks, its inverse
ranksToRows ==
    ("1" :> 7) @@ ("2" :> 6) @@ ("3" :> 5) @@ ("4" :> 4) @@
    ("5" :> 3) @@ ("6" :> 2) @@ ("7" :> 1) @@ ("8" :> 0)

rowsToRanks ==
    [v \in {ranksToRows[k] : k \in DOMAIN ranksToRows} |->
        CHOOSE k \in DOMAIN ranksToRows : ranksToRows[k] = v]

\* filesToCols with the files counted from column 0: a = 0, ..., h = 7
filesToColsFromA ==
    ("a" :> 0) @@ ("b" :> 1) @@ ("c" :> 2) @@ ("d" :> 3) @@
    ("e" :> 4) @@ ("f" :> 5) @@ ("g" :> 6) @@ ("h" :> 7)

\* Move.filesToCols and Move.colsToFiles, its inverse
filesToCols ==
    ("a" :> 7) @@ ("b" :> 6) @@ ("c" :> 5) @@ ("d" :> 4) @@
    ("e" :> 3) @@ ("f" :> 2) @@ ("g" :> 1) @@ ("h" :> 0)

colsToFiles ==
    [v \in {filesToCols[k] : k \in DOMAIN filesToCols} |->
        CHOOSE k \in DOMAIN filesToCols : filesToCols[k] = v]

\* Move.getRankFile: a string is the sequence of its characters
getRankFile(r, c) == <<colsToFiles[c], rowsToRanks[r]>>

\* Move.getChessNotation
getChessNotation(m) ==
    getRankFile(m.startRow, m.startCol) \o getRankFile(m.endRow, m.endCol)

---------------------------------------------------------------------------
(* GameState.makeMove / undoMove as functions of the position *)

\* The position part of a GameState
Position(b, wtm, log, wk, bk) ==
    [board |-> b, whiteToMove |-> wtm, moveLog |-> log,
     whiteKingLocation |-> wk, blackKingLocation |-> bk]

makeMove(s, move) ==
    [board |-> PySet(PySet(s.board, move.startRow, move.startCol, "--"),
                     move.endRow, move.endCol, move.pieceMoved),
     whiteToMove |-> ~s.whiteToMove,
     moveLog |-> Append(s.moveLog, move),
     whiteKingLocation |->
        IF move.pieceMoved = "wK" THEN <<move.endRow, move.endCol>>
        ELSE s.whiteKingLocation,
     blackKingLocation |->
        IF move.pieceMoved = "wK" THEN s.blackKingLocation
        ELSE IF move.pieceMoved = "bK" THEN <<move.endRow, move.endCol>>
        ELSE s.blackKingLocation]

\* undoMove with the destination square left empty instead of getting the
\* captured piece back
undoMoveDropsCapture(s) ==
    IF Len(s.moveLog) # 0 THEN
        LET move == s.moveLog[Len(s.moveLog)] IN
        [board |-> PySet(PySet(s.board, move.startRow, move.startCol, move.pieceMoved),
                         move.endRow, move.endCol, "--"),
         whiteToMove |-> ~s.whiteToMove,
         moveLog |-> SubSeq(s.moveLog, 1, Len(s.moveLog) - 1),
         whiteKingLocation |->
            IF move.pieceMoved = "wK" THEN <<move.startRow, move.startCol>>
            ELSE s.whiteKingLocation,
         blackKingLocation |->
            IF move.pieceMoved = "wK" THEN s.blackKingLocation
            ELSE IF move.pieceMoved = "bK" THEN <<move.startRow, move.startCol>>
            ELSE s.blackKingLocation]
    ELSE s

\* undoMove that switches the turn even when the log is empty
undoMoveNoGuard(s) ==
    IF Len(s.moveLog) # 0 THEN
        LET move == s.moveLog[Len(s.moveLog)] IN
        [board |-> PySet(PySet(s.board, move.startRow, move.startCol, move.pieceMoved),
                         move.endRow, move.endCol, move.pieceCaptured),
         whiteToMove |-> ~s.whiteToMove,
         moveLog |-> SubSeq(s.moveLog, 1, Len(s.moveLog) - 1),
         whiteKingLocation |->
            IF move.pieceMoved = "wK" THEN <<move.startRow, move.startCol>>
            ELSE s.whiteKingLocation,
         blackKingLocation |->
            IF move.pieceMoved = "wK" THEN s.blackKingLocation
            ELSE IF move.pieceMoved = "bK" THEN <<move.startRow, move.startCol>>
            ELSE s.blackKingLocation]
    ELSE [s EXCEPT !.whiteToMove = ~s.whiteToMove]

undoMove(s) ==
    IF Len(s.moveLog) # 0 THEN
        LET move == s.moveLog[Len(s.moveLog)] IN
        [board |-> PySet(PySet(s.board, move.startRow, move.startCol, move.pieceMoved),
                         move.endRow, move.endCol, move.pieceCaptured),
         whiteToMove |-> ~s.whiteToMove,
         moveLog |-> SubSeq(s.moveLog, 1, Len(s.moveLog) - 1),
         whiteKingLocation |->
            IF move.pieceMoved = "wK" THEN <<move.startRow, move.startCol>>
            ELSE s.whiteKingLocation,
         blackKingLocation |->
            IF move.pieceMoved = "wK" THEN s.blackKingLocation
            ELSE IF move.pieceMoved = "bK" THEN <<move.startRow, move.startCol>>
            ELSE s.blackKingLocation]
    ELSE s

---------------------------------------------------------------------------
(* GameState.checksForPinsAndChecks *)

\* directions of checksForPinsAndChecks, indexed j = 0..7 as directions[j + 1]
directions ==
    << <<-1, 0>>, <<0, -1>>, <<1, 0>>, <<0, 1>>,
       <<-1, -1>>, <<-1, 1>>, <<1, -1>>, <<1, 1>> >>

knightMoves ==
    << <<-2, -1>>, <<-2, 1>>, <<-1, -2>>, <<-1, 2>>,
       <<1, -2>>, <<1, 2>>, <<2, -1>>, <<2, 1>> >>

\* RayAttacker without the bishop on a diagonal ray
RayAttackerNoBishop(typePiece, enemyColor, j, i) ==
    \/ (0 <= j /\ j <= 3 /\ typePiece = "R")
    \/ (i = 1 /\ typePiece = "p"
          /\ ((enemyColor = "w" /\ 6 <= j /\ j <= 7)
              \/ (enemyColor = "b" /\ 4 <= j /\ j <= 5)))
    \/ typePiece = "Q"
    \/ (i = 1 /\ typePiece = "K")

\* The condition of lines 151-154: the enemy piece met at distance i on ray j
\* attacks the king
RayAttacker(typePiece, enemyColor, j, i) ==
    \/ (0 <= j /\ j <= 3 /\ typePiece = "R")
    \/ (4 <= j /\ j <= 7 /\ typePiece = "B")
    \/ (i = 1 /\ typePiece = "p"
          /\ ((enemyColor = "w" /\ 6 <= j /\ j <= 7)
              \/ (enemyColor = "b" /\ 4 <= j /\ j <= 5)))
    \/ typePiece = "Q"
    \/ (i = 1 /\ typePiece = "K")

\* The inner loop (for i in range(1, 8)) of one direction j, from step i on:
\* the checks it appends. No statement of the loop appends to pins.
RECURSIVE ScanKingRay(_, _, _, _, _, _, _, _)
ScanKingRay(b, allyColor, enemyColor, startRow, startCol, j, i, possiblePin) ==
    LET d == directions[j + 1]
        endRow == startRow + d[1] * i
        endCol == startCol + d[2] * i
    IN  IF i > 7 THEN <<>>
        ELSE IF ~OnBoard(endRow, endCol) THEN <<>>                 \* off board: break
        ELSE LET endPiece == b[endRow][endCol] IN
             IF PieceColor(endPiece) = allyColor /\ endPiece # "K" THEN
                 IF possiblePin = <<>>
                 THEN ScanKingRay(b, allyColor, enemyColor, startRow, startCol,
                                  j, i + 1, <<endRow, endCol, d[1], d[2]>>)
                 ELSE <<>>                                          \* 2nd allied piece: break
             ELSE IF PieceColor(endPiece) = enemyColor THEN
                 IF RayAttacker(PieceType(endPiece), enemyColor, j, i) THEN
                     IF possiblePin = <<>>
                     THEN << <<endRow, endCol, d[1], d[2]>> >>      \* check, break
                     ELSE ScanKingRay(b, allyColor, enemyColor, startRow, startCol,
                                      j, i + 1, possiblePin)        \* no else branch: goes on
                 ELSE <<>>                                          \* not applying check: break
             ELSE ScanKingRay(b, allyColor, enemyColor, startRow, startCol,
                              j, i + 1, possiblePin)

\* The outer loop over the 8 directions, from direction j on
RECURSIVE RayChecks(_, _, _, _, _, _)
RayChecks(b, allyColor, enemyColor, startRow, startCol, j) ==
    IF j > 7 THEN <<>>
    ELSE ScanKingRay(b, allyColor, enemyColor, startRow, startCol, j, 1, <<>>)
         \o RayChecks(b, allyColor, enemyColor, startRow, startCol, j + 1)

\* The knight loop (lines 165-173), from offset k (1..8) on
RECURSIVE KnightChecks(_, _, _, _, _)
KnightChecks(b, enemyColor, startRow, startCol, k) ==
    IF k > 8 THEN <<>>
    ELSE LET m == knightMoves[k]
             endRow == startRow + m[1]
             endCol == startCol + m[2]
             hit == /\ OnBoard(endRow, endCol)
                    /\ PieceColor(b[endRow][endCol]) = enemyColor
                    /\ PieceType(b[endRow][endCol]) = "N"
         IN (IF hit THEN << <<endRow, endCol, m[1], m[2]>> >> ELSE <<>>)
            \o KnightChecks(b, enemyColor, startRow, startCol, k + 1)

\* The inner loop of one direction with the pin recorded: an else branch to
\* "if possiblePin == ()" of line 155 that appends possiblePin and breaks
RECURSIVE ScanKingRayPin(_, _, _, _, _, _, _, _)
ScanKingRayPin(b, allyColor, enemyColor, startRow, startCol, j, i, possiblePin) ==
    LET d == directions[j + 1]
        endRow == startRow + d[1] * i
        endCol == startCol + d[2] * i
    IN  IF i > 7 THEN <<>>
        ELSE IF ~OnBoard(endRow, endCol) THEN <<>>
        ELSE LET endPiece == b[endRow][endCol] IN
             IF PieceColor(endPiece) = allyColor /\ endPiece # "K" THEN
                 IF possiblePin = <<>>
                 THEN ScanKingRayPin(b, allyColor, enemyColor, startRow, startCol,
                                     j, i + 1, <<endRow, endCol, d[1], d[2]>>)
                 ELSE <<>>
             ELSE IF PieceColor(endPiece) = enemyColor THEN
                 IF RayAttacker(PieceType(endPiece), enemyColor, j, i) /\ possiblePin # <<>>
                 THEN <<possiblePin>>
                 ELSE <<>>
             ELSE ScanKingRayPin(b, allyColor, enemyColor, startRow, startCol,
                                 j, i + 1, possiblePin)

\* checksForPinsAndChecks that returns the pins so recorded
checksForPinsAndChecksRecordsPins(b, wtm, wk, bk) ==
    LET enemyColor == IF wtm THEN "b" ELSE "w"
        allyColor == IF wtm THEN "w" ELSE "b"
        startRow == IF wtm THEN wk[1] ELSE bk[1]
        startCol == IF wtm THEN wk[2] ELSE bk[2]
        cs == RayChecks(b, allyColor, enemyColor, startRow, startCol, 0)
              \o KnightChecks(b, enemyColor, startRow, startCol, 1)
        pin(j) == ScanKingRayPin(b, allyColor, enemyColor, startRow, startCol, j, 1, <<>>)
    IN [inCheck |-> cs # <<>>,
        pins |-> pin(0) \o pin(1) \o pin(2) \o pin(3) \o pin(4) \o pin(5) \o pin(6) \o pin(7),
        checks |-> cs]

checksForPinsAndChecks(b, wtm, wk, bk) ==
    LET enemyColor == IF wtm THEN "b" ELSE "w"
        allyColor == IF wtm THEN "w" ELSE "b"
        startRow == IF wtm THEN wk[1] ELSE bk[1]
        startCol == IF wtm THEN wk[2] ELSE bk[2]
        cs == RayChecks(b, allyColor, enemyColor, startRow, startCol, 0)
              \o KnightChecks(b, enemyColor, startRow, startCol, 1)
    IN [inCheck |-> cs # <<>>, pins |-> <<>>, checks |-> cs]

---------------------------------------------------------------------------
(* The move generators.  Each takes the board, the side to move and the    *)
(* current self.pins, and yields the moves it appends, self.pins as it     *)
(* leaves it, and whether it raised IndexError.                            *)

\* The index (1-based) of the pin the backward loop over self.pins finds for
\* square (r, c), 0 if none
PinIndex(ps, r, c) ==
    IF \E i \in 1..Len(ps) : ps[i][1] = r /\ ps[i][2] = c
    THEN CHOOSE i \in 1..Len(ps) :
            /\ ps[i][1] = r /\ ps[i][2] = c
            /\ \A k \in (i + 1)..Len(ps) : ~(ps[k][1] = r /\ ps[k][2] = c)
    ELSE 0

\* self.pins.remove(self.pins[i]): list.remove drops the first equal element
RemovePin(ps, i) ==
    LET first == CHOOSE k \in 1..Len(ps) :
                    ps[k] = ps[i] /\ \A h \in 1..(k - 1) : ps[h] # ps[i]
    IN SubSeq(ps, 1, first - 1) \o SubSeq(ps, first + 1, Len(ps))

\* pinDirection after the pin loop: () if the piece is not pinned
PinDirection(ps, r, c) ==
    LET i == PinIndex(ps, r, c) IN
    IF i = 0 THEN <<>> ELSE <<ps[i][3], ps[i][4]>>

\* The pawn advance (lines 249-253, 267-271): one square ahead (fwd is -1 for
\* white, 1 for black) if it is empty and the pin allows it, and then two
\* squares from the home row if that square is empty too.
\* PawnAdvanceNoDouble is PawnAdvance without the two-square advance.
PawnAdvanceNoDouble(b, r, c, fwd, home, allowed) ==
    IF PyGet(b, r + fwd, c) = "--" /\ allowed
    THEN <<Move(r, c, r + fwd, c, b)>>
    ELSE <<>>

\* PawnAdvance with the two-square advance appended before the one-square one
PawnAdvanceDoubleFirst(b, r, c, fwd, home, allowed) ==
    IF PyGet(b, r + fwd, c) = "--" /\ allowed
    THEN (IF r = home /\ b[r + 2 * fwd][c] = "--"
          THEN <<Move(r, c, r + 2 * fwd, c, b)>> ELSE <<>>)
         \o <<Move(r, c, r + fwd, c, b)>>
    ELSE <<>>

PawnAdvance(b, r, c, fwd, home, allowed) ==
    IF PyGet(b, r + fwd, c) = "--" /\ allowed
    THEN <<Move(r, c, r + fwd, c, b)>>
         \o (IF r = home /\ b[r + 2 * fwd][c] = "--"
             THEN <<Move(r, c, r + 2 * fwd, c, b)>> ELSE <<>>)
    ELSE <<>>

getPawnMoves(b, wtm, ps, r, c) ==
    LET i == PinIndex(ps, r, c)
        piecePinned == i # 0
        pinDirection == PinDirection(ps, r, c)
        ps2 == IF piecePinned THEN RemovePin(ps, i) ELSE ps
        free(d) == ~piecePinned \/ pinDirection = d
    IN  IF wtm THEN
            \* r - 1 = -1 for a pawn on row 0: Python reads row 7
            LET left ==
                    IF c - 1 >= 0 /\ PieceColor(PyGet(b, r - 1, c - 1)) = "b"
                       /\ free(<<-1, -1>>)
                    THEN <<Move(r, c, r - 1, c - 1, b)>> ELSE <<>>
                right ==
                    IF c + 1 <= 7 /\ PieceColor(PyGet(b, r - 1, c + 1)) = "b"
                       /\ free(<<-1, 1>>)
                    THEN <<Move(r, c, r - 1, c + 1, b)>> ELSE <<>>
            IN [moves |-> PawnAdvance(b, r, c, -1, 6, free(<<-1, 0>>)) \o left \o right,
                pins |-> ps2, raised |-> FALSE]
        ELSE IF r + 1 > 7 THEN
            \* self.board[r + 1] with r = 7: IndexError (line 267)
            [moves |-> <<>>, pins |-> ps2, raised |-> TRUE]
        ELSE
            LET left ==
                    IF c - 1 >= 0 /\ PieceColor(b[r + 1][c - 1]) = "w"
                       /\ free(<<1, -1>>)
                    THEN <<Move(r, c, r + 1, c - 1, b)>> ELSE <<>>
                right ==
                    IF c + 1 <= 7 /\ PieceColor(b[r + 1][c + 1]) = "w"
                       /\ free(<<1, 1>>)
                    THEN <<Move(r, c, r + 1, c + 1, b)>> ELSE <<>>
            IN [moves |-> PawnAdvance(b, r, c, 1, 1, free(<<1, 0>>)) \o left \o right,
                pins |-> ps2, raised |-> FALSE]

\* The loop "for i in range(1, 8)" of getRookMoves / getBishopMoves for one
\* direction d, from step i on
RECURSIVE SlideMoves(_, _, _, _, _, _, _, _)
SlideMoves(b, enemyColor, piecePinned, pinDirection, r, c, d, i) ==
    LET endRow == r + d[1] * i
        endCol == c + d[2] * i
    IN  IF i > 7 THEN <<>>
        ELSE IF ~OnBoard(endRow, endCol)
        THEN SlideMoves(b, enemyColor, piecePinned, pinDirection, r, c, d, i + 1)
        ELSE IF ~piecePinned \/ pinDirection = d \/ pinDirection = <<-d[1], -d[2]>>
        THEN LET endPiece == b[endRow][endCol] IN
             IF endPiece = "--"
             THEN <<Move(r, c, endRow, endCol, b)>>
                  \o SlideMoves(b, enemyColor, piecePinned, pinDirection, r, c, d, i + 1)
             ELSE IF PieceColor(endPiece) = enemyColor
             THEN <<Move(r, c, endRow, endCol, b)>>
             ELSE <<>>
        ELSE <<>>

rookDirections == << <<-1, 0>>, <<1, 0>>, <<0, -1>>, <<0, 1>> >>

bishopDirections == << <<-1, -1>>, <<1, 1>>, <<1, -1>>, <<-1, 1>> >>

\* The loop "for d in directions" of getRookMoves / getBishopMoves
SlideAll(b, wtm, piecePinned, pinDirection, r, c, dirs) ==
    LET enemyColor == IF wtm THEN "b" ELSE "w"
        ray(k) == SlideMoves(b, enemyColor, piecePinned, pinDirection, r, c, dirs[k], 1)
    IN ray(1) \o ray(2) \o ray(3) \o ray(4)

getRookMoves(b, wtm, ps, r, c) ==
    LET i == PinIndex(ps, r, c)
        piecePinned == i # 0
        ps2 == IF piecePinned /\ PieceType(b[r][c]) # "Q" THEN RemovePin(ps, i) ELSE ps
    IN [moves |-> SlideAll(b, wtm, piecePinned, PinDirection(ps, r, c), r, c, rookDirections),
        pins |-> ps2, raised |-> FALSE]

getBishopMoves(b, wtm, ps, r, c) ==
    LET i == PinIndex(ps, r, c)
        piecePinned == i # 0
        ps2 == IF piecePinned THEN RemovePin(ps, i) ELSE ps
    IN [moves |-> SlideAll(b, wtm, piecePinned, PinDirection(ps, r, c), r, c, bishopDirections),
        pins |-> ps2, raised |-> FALSE]

getQueenMoves(b, wtm, ps, r, c) ==
    LET bishopAfter(rook) ==
            LET join(bishop) == [moves |-> rook.moves \o bishop.moves,
                                 pins |-> bishop.pins, raised |-> FALSE]
            IN (CHOOSE y \in {join(x) : x \in {getBishopMoves(b, wtm, rook.pins, r, c)}} : TRUE)
    IN (CHOOSE y \in {bishopAfter(x) : x \in {getRookMoves(b, wtm, ps, r, c)}} : TRUE)

\* The loop "for m in knightMoves" of getKnightMoves, from offset k (1..8) on
RECURSIVE KnightMovesFrom(_, _, _, _, _, _)
KnightMovesFrom(b, allyColor, piecePinned, r, c, k) ==
    IF k > 8 THEN <<>>
    ELSE LET m == knightMoves[k]
             endRow == r + m[1]
             endCol == c + m[2]
             ok == /\ OnBoard(endRow, endCol)
                   /\ ~piecePinned
                   /\ PieceColor(b[endRow][endCol]) # allyColor
         IN (IF ok THEN <<Move(r, c, endRow, endCol, b)>> ELSE <<>>)
            \o KnightMovesFrom(b, allyColor, piecePinned, r, c, k + 1)

getKnightMoves(b, wtm, ps, r, c) ==
    LET i == PinIndex(ps, r, c)
        piecePinned == i # 0
        ps2 == IF piecePinned THEN RemovePin(ps, i) ELSE ps
    IN [moves |-> KnightMovesFrom(b, IF wtm THEN "w" ELSE "b", piecePinned, r, c, 1),
        pins |-> ps2, raised |-> FALSE]

kingMoves ==
    << <<-1, -1>>, <<-1, 0>>, <<-1, 1>>, <<0, -1>>,
       <<0, 1>>, <<1, -1>>, <<1, 0>>, <<1, 1>> >>

\* A destination getKingMoves tries: on the board and not an ally piece
KingCandidate(b, allyColor, endRow, endCol) ==
    OnBoard(endRow, endCol) /\ PieceColor(b[endRow][endCol]) # allyColor

\* The loop "for i in range(8)" of getKingMoves, from offset k (1..8) on: the
\* king cache is set to the destination, checksForPinsAndChecks runs on the
\* unchanged board, and the move is kept if it reports no check
RECURSIVE KingMovesFrom(_, _, _, _, _, _, _)
KingMovesFrom(b, wtm, wk, bk, r, c, k) ==
    IF k > 8 THEN <<>>
    ELSE LET endRow == r + kingMoves[k][1]
             endCol == c + kingMoves[k][2]
             allyColor == IF wtm THEN "w" ELSE "b"
             res == checksForPinsAndChecks(b, wtm,
                        IF allyColor = "w" THEN <<endRow, endCol>> ELSE wk,
                        IF allyColor = "w" THEN bk ELSE <<endRow, endCol>>)
         IN (IF KingCandidate(b, allyColor, endRow, endCol) /\ ~res.inCheck
             THEN <<Move(r, c, endRow, endCol, b)>> ELSE <<>>)
            \o KingMovesFrom(b, wtm, wk, bk, r, c, k + 1)

\* getKingMoves without "place king on original location": the king cache
\* stays on the last destination tried
getKingMovesNoRestore(b, wtm, wk, bk, r, c) ==
    LET allyColor == IF wtm THEN "w" ELSE "b"
        tries == {k \in 1..8 :
                    KingCandidate(b, allyColor, r + kingMoves[k][1], c + kingMoves[k][2])}
        last == CHOOSE k \in tries : \A h \in tries : h <= k
        dest == <<r + kingMoves[last][1], c + kingMoves[last][2]>>
    IN [moves |-> KingMovesFrom(b, wtm, wk, bk, r, c, 1),
        whiteKingLocation |-> IF tries # {} /\ allyColor = "w" THEN dest ELSE wk,
        blackKingLocation |-> IF tries # {} /\ allyColor = "b" THEN dest ELSE bk]

\* getKingMoves: the moves, and the king caches as it leaves them ("place king
\* on original location" writes (r, c) after every candidate tried)
getKingMoves(b, wtm, wk, bk, r, c) ==
    LET allyColor == IF wtm THEN "w" ELSE "b"
        tried == \E k \in 1..8 :
                    KingCandidate(b, allyColor, r + kingMoves[k][1], c + kingMoves[k][2])
    IN [moves |-> KingMovesFrom(b, wtm, wk, bk, r, c, 1),
        whiteKingLocation |-> IF tried /\ allyColor = "w" THEN <<r, c>> ELSE wk,
        blackKingLocation |-> IF tried /\ allyColor = "b" THEN <<r, c>> ELSE bk]

---------------------------------------------------------------------------
(* GameState.getAllPossibleMoves / getValidMoves *)

\* self.moveFunction[piece](r, c, moves), with the king caches the call leaves
Dispatch(b, wtm, ps, wk, bk, r, c) ==
    LET piece == PieceType(b[r][c])
        with(g) == [moves |-> g.moves, pins |-> g.pins, raised |-> g.raised,
                    whiteKingLocation |-> wk, blackKingLocation |-> bk]
        withKing(k) == [moves |-> k.moves, pins |-> ps, raised |-> FALSE,
                        whiteKingLocation |-> k.whiteKingLocation,
                        blackKingLocation |-> k.blackKingLocation]
    IN  IF piece = "p" THEN (CHOOSE y \in {with(x) : x \in {getPawnMoves(b, wtm, ps, r, c)}} : TRUE)
        ELSE IF piece = "R" THEN (CHOOSE y \in {with(x) : x \in {getRookMoves(b, wtm, ps, r, c)}} : TRUE)
        ELSE IF piece = "N" THEN (CHOOSE y \in {with(x) : x \in {getKnightMoves(b, wtm, ps, r, c)}} : TRUE)
        ELSE IF piece = "B" THEN (CHOOSE y \in {with(x) : x \in {getBishopMoves(b, wtm, ps, r, c)}} : TRUE)
        ELSE IF piece = "Q" THEN (CHOOSE y \in {with(x) : x \in {getQueenMoves(b, wtm, ps, r, c)}} : TRUE)
        ELSE (CHOOSE y \in {withKing(x) : x \in {getKingMoves(b, wtm, wk, bk, r, c)}} : TRUE)

\* The two loops of getAllPossibleMoves from square n = 8 * r + c on, row-major:
\* the squares that hold no piece of the side to move are passed over; an
\* exception ends the scan
RECURSIVE ScanBoard(_, _, _, _, _, _)
ScanBoard(b, wtm, ps, wk, bk, n) ==
    LET turn(k) == PieceColor(b[k \div 8][k % 8])
        mine == {k \in n..63 : (turn(k) = "w" /\ wtm) \/ (turn(k) = "b" /\ ~wtm)}
        scanFrom(k) ==
            LET then(here) ==
                    IF here.raised THEN here
                    ELSE [ScanBoard(b, wtm, here.pins, here.whiteKingLocation,
                                    here.blackKingLocation, k + 1)
                          EXCEPT !.moves = here.moves \o @]
            IN (CHOOSE y \in {then(x) : x \in {Dispatch(b, wtm, ps, wk, bk, k \div 8, k % 8)}} : TRUE)
    IN  IF mine = {}
        THEN [moves |-> <<>>, pins |-> ps, raised |-> FALSE,
              whiteKingLocation |-> wk, blackKingLocation |-> bk]
        ELSE (CHOOSE y \in {scanFrom(x) : x \in {CHOOSE k \in mine : \A h \in mine : k <= h}} : TRUE)

getAllPossibleMoves(b, wtm, ps, wk, bk) == ScanBoard(b, wtm, ps, wk, bk, 0)

\* len(self.checks) == 1 (line 81); OneCheckOrMore takes a double check for
\* a single one
OneCheckOrMore(cs) == Len(cs) >= 1

OneCheck(cs) == Len(cs) = 1

\* ValidSquares with the loop ended before the checking piece's square
ValidSquaresWithoutAttacker(b, kingRow, kingCol, check) ==
    LET checkRow == check[1]
        checkCol == check[2]
        sq(i) == <<kingRow + check[3] * i, kingCol + check[4] * i>>
        reached == {i \in 1..7 : sq(i) = <<checkRow, checkCol>>}
        last == IF reached = {} THEN 7
                ELSE CHOOSE i \in reached : \A k \in reached : i <= k
    IN  IF PieceType(b[checkRow][checkCol]) = "N" THEN {<<checkRow, checkCol>>}
        ELSE {sq(i) : i \in 1..(last - 1)}

\* validSquares of getValidMoves (lines 88-97) for the single check `check`
ValidSquares(b, kingRow, kingCol, check) ==
    LET checkRow == check[1]
        checkCol == check[2]
        pieceChecking == b[checkRow][checkCol]
        sq(i) == <<kingRow + check[3] * i, kingCol + check[4] * i>>
        reached == {i \in 1..7 : sq(i) = <<checkRow, checkCol>>}
        last == IF reached = {} THEN 7
                ELSE CHOOSE i \in reached : \A k \in reached : i <= k
    IN  IF PieceType(pieceChecking) = "N" THEN {<<checkRow, checkCol>>}
        ELSE {sq(i) : i \in 1..last}

\* moves.remove(x): drops the first element equal to x under Move.__eq__
RemoveMove(ms, x) ==
    LET first == CHOOSE k \in 1..Len(ms) :
                    MoveEq(ms[k], x) /\ \A h \in 1..(k - 1) : ~MoveEq(ms[h], x)
    IN SubSeq(ms, 1, first - 1) \o SubSeq(ms, first + 1, Len(ms))

\* The backward loop of lines 99-102 from index i (1-based) down
RECURSIVE FilterMoves(_, _, _)
FilterMoves(ms, validSquares, i) ==
    IF i < 1 THEN ms
    ELSE IF PieceType(ms[i].pieceMoved) # "K"
            /\ <<ms[i].endRow, ms[i].endCol>> \notin validSquares
    THEN FilterMoves(RemoveMove(ms, ms[i]), validSquares, i - 1)
    ELSE FilterMoves(ms, validSquares, i - 1)

\* getValidMoves on a position: the list returned (unless it raised), and the
\* fields of the GameState it writes
getValidMoves(b, wtm, wk, bk) ==
    LET kingRow == IF wtm THEN wk[1] ELSE bk[1]
        kingCol == IF wtm THEN wk[2] ELSE bk[2]
        body(res) ==
            LET out(ms, ps, raised, wk2, bk2) ==
                    [moves |-> ms, raised |-> raised,
                     inCheck |-> res.inCheck, pins |-> ps, checks |-> res.checks,
                     whiteKingLocation |-> wk2, blackKingLocation |-> bk2]
                \* only 1 check: block the check or move the king
                single(all) ==
                    IF all.raised
                    THEN out(<<>>, all.pins, TRUE,
                             all.whiteKingLocation, all.blackKingLocation)
                    ELSE out(FilterMoves(all.moves,
                                         ValidSquares(b, kingRow, kingCol, res.checks[1]),
                                         Len(all.moves)),
                             all.pins, FALSE,
                             all.whiteKingLocation, all.blackKingLocation)
                \* double check: the king has to move
                double(king) ==
                    out(king.moves, res.pins, FALSE,
                        king.whiteKingLocation, king.blackKingLocation)
                \* not in check: all moves are fine
                free(all) ==
                    out(all.moves, all.pins, all.raised,
                        all.whiteKingLocation, all.blackKingLocation)
            IN  IF res.inCheck THEN
                    IF OneCheck(res.checks)
                    THEN (CHOOSE y \in {single(x) : x \in {getAllPossibleMoves(b, wtm, res.pins, wk, bk)}} : TRUE)
                    ELSE (CHOOSE y \in {double(x) : x \in {getKingMoves(b, wtm, wk, bk, kingRow, kingCol)}} : TRUE)
                ELSE (CHOOSE y \in {free(x) : x \in {getAllPossibleMoves(b, wtm, res.pins, wk, bk)}} : TRUE)
    IN (CHOOSE y \in {body(x) : x \in {checksForPinsAndChecks(b, wtm, wk, bk)}} : TRUE)

---------------------------------------------------------------------------
(* The games explored *)

\* Plies explored, every legal-by-getValidMoves move tried, beyond each opening
MaxPly == 1

\* Openings played from the initial position, each move as
\* <<startRow, startCol, endRow, endCol>>; the empty opening explores the
\* first MaxPly plies of the game in full.
OpeningLines ==
    { <<>>,
      \* 1. e4 e5 2. Qh5 Ke7 3. Qxe5+ Ke8
      << <<6,4,4,4>>, <<1,4,3,4>>, <<7,3,3,7>>, <<0,4,1,4>>, <<3,7,3,4>>, <<1,4,0,4>> >>,
      \* 1. e4 d5 2. exd5 Qxd5 3. h4 a6 4. Rh3 a5 5. Re3 Qe5
      << <<6,4,4,4>>, <<1,3,3,3>>, <<4,4,3,3>>, <<0,3,3,3>>, <<6,7,4,7>>,
         <<1,0,2,0>>, <<7,7,5,7>>, <<2,0,3,0>>, <<5,7,5,4>>, <<3,3,3,4>> >>,
      \* 1. Nf3 e6 2. Ne5 h6 3. Nxd7 h5 4. e4 h4 5. Bb5 h3 6. Nf6++
      << <<7,6,5,5>>, <<1,4,2,4>>, <<5,5,3,4>>, <<1,7,2,7>>, <<3,4,1,3>>,
         <<2,7,3,7>>, <<6,4,4,4>>, <<3,7,4,7>>, <<7,5,3,1>>, <<4,7,5,7>>,
         <<1,3,2,5>> >>,
      \* 1. a3 h5 2. a4 h4 3. a5 h3 4. a6 hxg2 5. axb7 gxh1 6. bxa8
      << <<6,0,5,0>>, <<1,7,3,7>>, <<5,0,4,0>>, <<3,7,4,7>>, <<4,0,3,0>>,
         <<4,7,5,7>>, <<3,0,2,0>>, <<5,7,6,6>>, <<2,0,1,1>>, <<6,6,7,7>>,
         <<1,1,0,0>> >>,
      \* 1. e4 d5 2. Bb5+
      << <<6,4,4,4>>, <<1,3,3,3>>, <<7,5,3,1>> >>,
      \* 1. Nc3 a6 2. Nd5 a5 3. Nxc7+
      << <<7,1,5,2>>, <<1,0,2,0>>, <<5,2,3,3>>, <<2,0,3,0>>, <<3,3,1,2>> >>,
      \* 1. e4 d5 2. exd5 e6 3. dxe6 a6 4. exf7+
      << <<6,4,4,4>>, <<1,3,3,3>>, <<4,4,3,3>>, <<1,4,2,4>>, <<3,3,2,4>>,
         <<1,0,2,0>>, <<2,4,1,5>> >>,
      \* a white pawn walks from (6,0) to (0,1) and the knight leaves (7,1):
      \* 1. (6,0)-(4,0) (1,1)-(3,1) 2. (4,0)x(3,1) (1,0)-(2,0) 3. (3,1)x(2,0)
      \* B(0,2)-(1,1) 4. (2,0)x(1,1) N(0,1)-(2,2) 5. (1,1)-(0,1) (1,7)-(2,7)
      \* 6. N(7,1)-(5,2) (2,7)-(3,7)
      << <<6,0,4,0>>, <<1,1,3,1>>, <<4,0,3,1>>, <<1,0,2,0>>, <<3,1,2,0>>,
         <<0,2,1,1>>, <<2,0,1,1>>, <<0,1,2,2>>, <<1,1,0,1>>, <<1,7,2,7>>,
         <<7,1,5,2>>, <<2,7,3,7>> >>,
      \* 1. e4 d5 2. exd5 Qxd5 3. Ne2 Qe5
      << <<6,4,4,4>>, <<1,3,3,3>>, <<4,4,3,3>>, <<0,3,3,3>>, <<7,6,6,4>>,
         <<3,3,3,4>> >>,
      \* 1. e4 d5 2. exd5 e6 3. dxe6 Nd7 4. Be2 Bd6 5. Bh5 a6 6. Qe2 f6
      \* 7. Bxe8 h6 8. exd7
      << <<6,4,4,4>>, <<1,3,3,3>>, <<4,4,3,3>>, <<1,4,2,4>>, <<3,3,2,4>>,
         <<0,1,1,3>>, <<7,5,6,4>>, <<0,5,2,3>>, <<6,4,3,7>>, <<1,0,2,0>>,
         <<7,3,6,4>>, <<1,5,2,5>>, <<3,7,0,4>>, <<1,7,2,7>>, <<2,4,1,3>> >> }

Coords(m) == <<m.startRow, m.startCol, m.endRow, m.endCol>>

\* The game `log` followed by `m` stays within the games explored: those
\* that follow one of `lines` and go on for at most MaxPly plies
Explored(lines, log, m) ==
    \E line \in lines :
        /\ Len(log) + 1 <= Len(line) + MaxPly
        /\ \A k \in 1..Len(log) : k <= Len(line) => Coords(log[k]) = line[k]
        /\ Len(log) + 1 <= Len(line) => Coords(m) = line[Len(log) + 1]

---------------------------------------------------------------------------
(* The program: main() of ChessMain.py driving a GameState *)

\* The current position as a record
Here == Position(board, whiteToMove, moveLog, whiteKingLocation, blackKingLocation)

SetPosition(s) ==
    /\ board' = s.board
    /\ whiteToMove' = s.whiteToMove
    /\ moveLog' = s.moveLog
    /\ whiteKingLocation' = s.whiteKingLocation
    /\ blackKingLocation' = s.blackKingLocation

\* GameState.__init__, then validMoves = gs.getValidMoves() (ChessMain.py line 46)
Init ==
    \E res \in {getValidMoves(InitialBoard, TRUE, <<7, 4>>, <<0, 4>>)} :
    /\ board = InitialBoard
    /\ whiteToMove = TRUE
    /\ moveLog = <<>>
    /\ whiteKingLocation = res.whiteKingLocation
    /\ blackKingLocation = res.blackKingLocation
    /\ inCheck = res.inCheck
    /\ pins = res.pins
    /\ checks = res.checks
    /\ validMoves = res.moves
    /\ moveMade = FALSE
    /\ error = ""

\* The squares a mouse click names: row and col are location // SQ_SIZE
Clicks == (0..7) \X (0..7)

\* The clicks explored: a first click on a square where an entry of
\* validMoves starts and a second one on a square where an entry ends, of the
\* same entry or not.  Any other pair of clicks builds a Move of coordinates
\* that no entry has.
FirstClicks ==
    Clicks \cap {<<validMoves[i].startRow, validMoves[i].startCol>> :
                    i \in 1..Len(validMoves)}

SecondClicks ==
    Clicks \cap {<<validMoves[i].endRow, validMoves[i].endCol>> :
                    i \in 1..Len(validMoves)}

\* A MOUSEBUTTONDOWN event that is the second of two clicks on different
\* squares: move = Move(playerClicks[0], playerClicks[1], gs.board), and if
\* move in validMoves: gs.makeMove(move), moveMade = True
ClickHandler(lines) ==
    /\ error = ""
    /\ \E sq1 \in FirstClicks : \E sq2 \in SecondClicks \ {sq1} :
          \E move \in {Move(sq1[1], sq1[2], sq2[1], sq2[2], board)} :
              /\ \E i \in 1..Len(validMoves) : MoveEq(move, validMoves[i])
              /\ Explored(lines, moveLog, move)
              /\ \E s \in {makeMove(Here, move)} : SetPosition(s)
    /\ moveMade' = TRUE
    /\ UNCHANGED <<inCheck, pins, checks, validMoves, error>>

\* A KEYDOWN event with key z: gs.undoMove(), moveMade = True
KeyHandler ==
    /\ error = ""
    /\ \E s \in {undoMove(Here)} : SetPosition(s)
    /\ moveMade' = TRUE
    /\ UNCHANGED <<inCheck, pins, checks, validMoves, error>>

\* The two events when no earlier event of the same p.event.get() batch has
\* made or undone a move: validMoves is the list of the current position
MakeMove == ~moveMade /\ ClickHandler(OpeningLines)

UndoMove == ~moveMade /\ KeyHandler

\* After the for loop over the batch: if moveMade:
\* validMoves = gs.getValidMoves(); moveMade = False
GetValidMoves ==
    /\ error = ""
    /\ moveMade
    /\ \E res \in {getValidMoves(board, whiteToMove, whiteKingLocation, blackKingLocation)} :
          /\ inCheck' = res.inCheck
          /\ pins' = res.pins
          /\ checks' = res.checks
          /\ whiteKingLocation' = res.whiteKingLocation
          /\ blackKingLocation' = res.blackKingLocation
          /\ IF res.raised
             THEN error' = "IndexError" /\ UNCHANGED <<validMoves, moveMade>>
             ELSE validMoves' = res.moves /\ moveMade' = FALSE /\ error' = error
    /\ UNCHANGED <<board, whiteToMove, moveLog>>

Next == MakeMove \/ UndoMove \/ GetValidMoves

Spec == Init /\ [][Next]_vars

\* The event loop with batches of any length: an event is handled whether or
\* not an earlier event of its batch has set moveMade, and getValidMoves runs
\* after the batch.  The games are the first MaxPly plies from the initial
\* position.
BatchMakeMove == ClickHandler({<<>>})

BatchUndoMove == KeyHandler

DriverNext == BatchMakeMove \/ BatchUndoMove \/ GetValidMoves

DriverSpec == Init /\ [][DriverNext]_vars

\* class Move on its own: gs.makeMove(Move(startSq, endSq, gs.board)) on the
\* fresh GameState for any two squares of the board, legal move or not, so
\* that moveLog holds the Move built
MakeAnyMove ==
    /\ moveLog = <<>>
    /\ \E sq1 \in Clicks : \E sq2 \in Clicks :
          \E s \in {makeMove(Here, Move(sq1[1], sq1[2], sq2[1], sq2[2], board))} :
              SetPosition(s)
    /\ UNCHANGED <<inCheck, pins, checks, validMoves, moveMade, error>>

MoveSpec == Init /\ [][MakeAnyMove]_vars

---------------------------------------------------------------------------
(* The rules of chess the specification states (sections 4.3, 4.4 and the  *)
(* glossary), written from the rules and not from the code: what the       *)
(* claims compare the code with.                                           *)

Squares == (0..7) \X (0..7)

Abs(x) == IF x < 0 THEN -x ELSE x

Sign(x) == IF x < 0 THEN -1 ELSE IF x > 0 THEN 1 ELSE 0

\* s and t differ and lie on one row, column or diagonal
Aligned(s, t) ==
    /\ s # t
    /\ \/ s[1] = t[1]
       \/ s[2] = t[2]
       \/ Abs(s[1] - t[1]) = Abs(s[2] - t[2])

\* The squares strictly between two aligned squares
Between(s, t) ==
    LET n == IF s[1] = t[1] THEN Abs(s[2] - t[2]) ELSE Abs(s[1] - t[1])
        dr == Sign(t[1] - s[1])
        dc == Sign(t[2] - s[2])
    IN {<<s[1] + dr * i, s[2] + dc * i>> : i \in 1..(n - 1)}

ClearBetween(b, s, t) == \A x \in Between(s, t) : b[x[1]][x[2]] = "--"

\* The piece standing on `from` attacks square `to`
RuleAttacks(b, from, to) ==
    LET piece == b[from[1]][from[2]]
        kind == PieceType(piece)
        dr == to[1] - from[1]
        dc == to[2] - from[2]
    IN  /\ from # to
        /\ \/ kind = "N" /\ {Abs(dr), Abs(dc)} = {1, 2}
           \/ kind = "K" /\ Abs(dr) <= 1 /\ Abs(dc) <= 1
           \/ kind = "p" /\ Abs(dc) = 1
                /\ dr = (IF PieceColor(piece) = "w" THEN -1 ELSE 1)
           \/ kind \in {"R", "Q"} /\ (dr = 0 \/ dc = 0) /\ ClearBetween(b, from, to)
           \/ kind \in {"B", "Q"} /\ Abs(dr) = Abs(dc) /\ ClearBetween(b, from, to)

\* Some piece of colour `by` attacks square sq
RuleAttacked(b, sq, by) ==
    \E from \in Squares :
        PieceColor(b[from[1]][from[2]]) = by /\ RuleAttacks(b, from, sq)

Other(color) == IF color = "w" THEN "b" ELSE "w"

King(color) == IF color = "w" THEN "wK" ELSE "bK"

KingSquares(b, color) == {s \in Squares : b[s[1]][s[2]] = King(color)}

\* The king of `color` is attacked by an enemy piece
RuleInCheck(b, color) ==
    \E k \in KingSquares(b, color) : RuleAttacked(b, k, Other(color))

\* The piece on `from` may go to `to` by its movement rule alone
\* (no castling, en passant or promotion)
RuleMoves(b, from, to) ==
    LET piece == b[from[1]][from[2]]
        color == PieceColor(piece)
        target == b[to[1]][to[2]]
        fwd == IF color = "w" THEN -1 ELSE 1
        home == IF color = "w" THEN 6 ELSE 1
    IN  /\ PieceColor(target) # color
        /\ IF PieceType(piece) = "p"
           THEN \/ /\ to = <<from[1] + fwd, from[2]>>
                   /\ target = "--"
                \/ /\ from[1] = home
                   /\ to = <<from[1] + 2 * fwd, from[2]>>
                   /\ target = "--"
                   /\ b[from[1] + fwd][from[2]] = "--"
                \/ /\ to[1] = from[1] + fwd
                   /\ Abs(to[2] - from[2]) = 1
                   /\ PieceColor(target) = Other(color)
           ELSE RuleAttacks(b, from, to)

\* The board after the piece on `from` went to `to`
RuleApply(b, from, to) ==
    [r \in 0..7 |-> [c \in 0..7 |->
        IF <<r, c>> = from THEN "--"
        ELSE IF <<r, c>> = to THEN b[from[1]][from[2]]
        ELSE b[r][c]]]

\* The legal moves of the side to move, as <<startRow, startCol, endRow, endCol>>
RuleLegalMoves(b, wtm) ==
    LET color == IF wtm THEN "w" ELSE "b" IN
    {<<from[1], from[2], to[1], to[2]>> : <<from, to>> \in
        {ft \in Squares \X Squares :
            /\ PieceColor(b[ft[1][1]][ft[1][2]]) = color
            /\ RuleMoves(b, ft[1], ft[2])
            /\ ~RuleInCheck(RuleApply(b, ft[1], ft[2]), color)}}

\* The last getValidMoves call returned validMoves for the current position
Queried == error = "" /\ ~moveMade

\* The side to move, and the side that moved last
Mover == IF whiteToMove THEN "w" ELSE "b"

ValidCoords == {Coords(validMoves[i]) : i \in 1..Len(validMoves)}

---------------------------------------------------------------------------
(* Claims *)

\* C1: in every position reached, no move of the getValidMoves result leaves
\* the mover's own king in check: after makeMove(m) the check detector, run
\* for the king of the side that moved, reports not-in-check.
C1_MovesLeaveKingSafe ==
    Queried =>
        \A i \in 1..Len(validMoves) :
            \E s \in {makeMove(Here, validMoves[i])} :
                ~checksForPinsAndChecks(s.board, whiteToMove,
                    s.whiteKingLocation, s.blackKingLocation).inCheck

\* C2: exactly one white king and one black king stand on the board in every
\* state reached, and no move of the getValidMoves result captures a king.
C2_OneKingEach ==
    /\ Cardinality(KingSquares(board, "w")) = 1
    /\ Cardinality(KingSquares(board, "b")) = 1
    /\ Queried =>
          \A i \in 1..Len(validMoves) :
              PieceType(validMoves[i].pieceCaptured) # "K"

\* C3: makeMove(m) followed by undoMove() restores the board, whiteToMove,
\* both king locations and moveLog, for every move m of the getValidMoves result.
C3_RoundTrip ==
    Queried =>
        \A i \in 1..Len(validMoves) :
            undoMove(makeMove(Here, validMoves[i])) = Here

\* C3 witness: the program has undone a capture: the position is the one
\* before a capturing move of which validMoves still holds the replies.
C3_Witness ==
    /\ moveMade
    /\ error = ""
    /\ \E m \in {Move(x[1], x[2], x[3], x[4], board) :
                    x \in RuleLegalMoves(board, whiteToMove)} :
          /\ m.pieceCaptured # "--"
          /\ \E s \in {makeMove(Here, m)} :
                validMoves = getValidMoves(s.board, s.whiteToMove,
                    s.whiteKingLocation, s.blackKingLocation).moves

\* C4: the cached king squares hold the kings: board[whiteKingLocation] is
\* "wK" and board[blackKingLocation] is "bK" in every state reached.
C4_KingCache ==
    /\ PyGet(board, whiteKingLocation[1], whiteKingLocation[2]) = "wK"
    /\ PyGet(board, blackKingLocation[1], blackKingLocation[2]) = "bK"

\* What the last getValidMoves call returned for the current position: the
\* coordinates of its moves, none if it raised
Returned == IF error = "" THEN ValidCoords ELSE {}

\* C5: in every position reached, every move that obeys the piece movement
\* rules and does not leave the mover's own king attacked is in the list that
\* getValidMoves returns for that position.
C5_Complete ==
    (~moveMade \/ error # "") =>
        RuleLegalMoves(board, whiteToMove) \subseteq Returned

\* A white rook on (m[1], m[2]) stands on the king's file between the white
\* king and a black queen on (m[3], m[2]), nothing else between the three
RookPinnedOnFile(m) ==
    LET k == whiteKingLocation
        rook == <<m[1], m[2]>>
        queen == <<m[3], m[2]>>
    IN  /\ board[k[1]][k[2]] = "wK"
        /\ m[2] = k[2]
        /\ board[rook[1]][rook[2]] = "wR"
        /\ board[queen[1]][queen[2]] = "bQ"
        /\ rook \in Between(k, queen)
        /\ \A x \in Between(k, queen) \ {rook} : board[x[1]][x[2]] = "--"

\* C6: with white to move and a white rook pinned on the king's file by a
\* black queen, getValidMoves holds no move of the rook off that file, and (the
\* king not being in check) holds its moves along the file up to the capture
\* of the queen.
C6_PinnedRookStaysOnFile ==
    (Queried /\ whiteToMove) =>
        \A m \in (0..7) \X (0..7) \X (0..7) :
            RookPinnedOnFile(m) =>
                /\ \A i \in 1..Len(validMoves) :
                      (validMoves[i].startRow = m[1] /\ validMoves[i].startCol = m[2])
                          => validMoves[i].endCol = m[2]
                /\ ~inCheck =>
                      \A x \in (Between(whiteKingLocation, <<m[3], m[2]>>)
                                  \cup {<<m[3], m[2]>>}) \ {<<m[1], m[2]>>} :
                          <<m[1], m[2], x[1], x[2]>> \in ValidCoords

\* C7: getValidMoves returns exactly 20 moves on a fresh GameState, and
\* exactly 20 moves for black after white played (6,4)->(4,4).
C7_TwentyMoves ==
    Queried =>
        /\ moveLog = <<>> => Len(validMoves) = 20
        /\ (Len(moveLog) = 1 /\ Coords(moveLog[1]) = <<6, 4, 4, 4>>)
              => Len(validMoves) = 20

\* C7 witness: black is to move after (6,4)->(4,4) and getValidMoves has run.
C7_Witness ==
    /\ Queried
    /\ ~whiteToMove
    /\ Len(moveLog) = 1
    /\ Coords(moveLog[1]) = <<6, 4, 4, 4>>
    /\ board[4][4] = "wp"

\* C8: whenever checksForPinsAndChecks reported two or more checks, every
\* move getValidMoves returned moves the king of the side to move, from the
\* king's square.
C8_DoubleCheckOnlyKing ==
    (Queried /\ Len(checks) >= 2) =>
        \A i \in 1..Len(validMoves) :
            /\ validMoves[i].pieceMoved = King(Mover)
            /\ <<validMoves[i].startRow, validMoves[i].startCol>>
                  \in KingSquares(board, Mover)

\* C8 witness: a double check was reported and a move was returned.
C8_Witness ==
    /\ Queried
    /\ Len(checks) >= 2
    /\ RuleInCheck(board, Mover)
    /\ validMoves # <<>>

\* The king square of the side to move
MoverKing == IF whiteToMove THEN whiteKingLocation ELSE blackKingLocation

\* The blocking set of the single check by the piece on square a: the squares
\* from the king towards a, a included; a alone for a knight
BlockingSet(a) ==
    IF PieceType(board[a[1]][a[2]]) = "N" THEN {a}
    ELSE {x \in Squares : x = a \/ (Aligned(MoverKing, a) /\ x \in Between(MoverKing, a))}

\* The moves of the pieces of the side to move, kings apart, that obey the
\* movement rules
RuleNonKingMoves ==
    {<<ft[1][1], ft[1][2], ft[2][1], ft[2][2]>> : ft \in
        {ft \in Squares \X Squares :
            /\ PieceColor(board[ft[1][1]][ft[1][2]]) = Mover
            /\ PieceType(board[ft[1][1]][ft[1][2]]) # "K"
            /\ RuleMoves(board, ft[1], ft[2])}}

\* C9: whenever exactly one check was reported, every non-king move returned
\* ends in the blocking set, and every non-king move that obeys the movement
\* rules and ends in the blocking set is returned.
C9_SingleCheckBlockingSet ==
    (Queried /\ Len(checks) = 1) =>
        \E a \in {<<checks[1][1], checks[1][2]>>} :
            /\ \A i \in 1..Len(validMoves) :
                  PieceType(validMoves[i].pieceMoved) # "K"
                      => <<validMoves[i].endRow, validMoves[i].endCol>> \in BlockingSet(a)
            /\ \A x \in RuleNonKingMoves :
                  <<x[3], x[4]>> \in BlockingSet(a) => x \in ValidCoords

\* C9 witness: one check by a piece two or more squares away was reported,
\* and the list returned holds both a move that interposes and the capture
\* of the checking piece.
C9_Witness ==
    /\ Queried
    /\ Len(checks) = 1
    /\ \E a \in {<<checks[1][1], checks[1][2]>>} :
          /\ Between(MoverKing, a) # {}
          /\ \E i, k \in 1..Len(validMoves) :
                /\ PieceType(validMoves[i].pieceMoved) # "K"
                /\ <<validMoves[i].endRow, validMoves[i].endCol>> \in Between(MoverKing, a)
                /\ PieceType(validMoves[k].pieceMoved) # "K"
                /\ <<validMoves[k].endRow, validMoves[k].endCol>> = a

\* C10: in every position where the side to move is in check and has no
\* legal move, getValidMoves returns an empty list.
C10_CheckmateNoMoves ==
    (Queried /\ RuleInCheck(board, Mover)
             /\ RuleLegalMoves(board, whiteToMove) = {})
        => validMoves = <<>>

\* C11: in every position reached getValidMoves completes, without an
\* IndexError, and every move it returned has its four coordinates in 0..7.
C11_SquaresOnBoard ==
    /\ error = ""
    /\ \A i \in 1..Len(validMoves) :
          /\ OnBoard(validMoves[i].startRow, validMoves[i].startCol)
          /\ OnBoard(validMoves[i].endRow, validMoves[i].endCol)

\* C12: undoMove on an empty moveLog changes nothing of the position and
\* raises no error, and every call changes len(moveLog) as the count says:
\* makeMove adds one, undoMove on a non-empty log takes one away, and nothing
\* else changes it.
C12_UndoHistory ==
    [][ /\ UndoMove =>
              /\ error' = ""
              /\ IF moveLog = <<>>
                 THEN UNCHANGED <<board, whiteToMove, moveLog,
                                  whiteKingLocation, blackKingLocation>>
                 ELSE Len(moveLog') = Len(moveLog) - 1
        /\ MakeMove => Len(moveLog') = Len(moveLog) + 1
        /\ GetValidMoves => moveLog' = moveLog ]_vars

\* C12 witness: undoMove has just run on the empty log of the initial
\* position, with white's validMoves still in place.
C12_Witness ==
    /\ moveMade
    /\ error = ""
    /\ moveLog = <<>>
    /\ board = InitialBoard
    /\ whiteToMove
    /\ Len(validMoves) = 20
    /\ validMoves[1].pieceMoved = "wp"

\* The unit directions of the 8 rays from a square
RayDirections == {d \in (-1..1) \X (-1..1) : d # <<0, 0>>}

\* The pin the check detector is specified to record (section 4.3): on the
\* ray from the king on k in direction d the first piece met stands on sq and
\* is of the king's colour, and the next piece met is an enemy rook or queen
\* (orthogonal ray) or an enemy bishop or queen (diagonal ray)
RulePinned(b, color, k, sq, d) ==
    \E i \in 1..6 :
        /\ sq = <<k[1] + d[1] * i, k[2] + d[2] * i>>
        /\ sq \in Squares
        /\ PieceColor(b[sq[1]][sq[2]]) = color
        /\ ClearBetween(b, k, sq)
        /\ \E n \in (i + 1)..7 :
              \E t \in {<<k[1] + d[1] * n, k[2] + d[2] * n>>} :
                  /\ t \in Squares
                  /\ PieceColor(b[t[1]][t[2]]) = Other(color)
                  /\ ClearBetween(b, sq, t)
                  /\ PieceType(b[t[1]][t[2]]) \in
                        (IF d[1] = 0 \/ d[2] = 0 THEN {"R", "Q"} ELSE {"B", "Q"})

\* The knights of the side to move that the detector is specified to report
\* as pinned in the current position
PinnedKnights ==
    {sq \in Squares :
        /\ board[sq[1]][sq[2]] = (IF whiteToMove THEN "wN" ELSE "bN")
        /\ board[MoverKing[1]][MoverKing[2]] = King(Mover)
        /\ \E d \in RayDirections : RulePinned(board, Mover, MoverKing, sq, d)}

C14_RequeryBeforeInput ==
    [][ BatchMakeMove =>
          /\ validMoves = getValidMoves(board, whiteToMove,
                              whiteKingLocation, blackKingLocation).moves
          /\ Coords(moveLog'[Len(moveLog')]) \in RuleLegalMoves(board, whiteToMove)
      ]_vars

\* A board that differs from the initial one on every square that holds a
\* piece: the initial board with the rows in reverse order
MirrorBoard == [r \in 0..7 |-> InitialBoard[7 - r]]

\* C15: a Move with coordinates in 0..7 equals another one, whatever the
\* pieces the two were built with, if and only if the four coordinates of
\* the two are the same.
C15_MoveIdentity ==
    moveLog # <<>> =>
        \A q \in Clicks \X Clicks :
            MoveEq(moveLog[1], Move(q[1][1], q[1][2], q[2][1], q[2][2], MirrorBoard))
                <=> Coords(moveLog[1]) = <<q[1][1], q[1][2], q[2][1], q[2][2]>>

\* C15 witness: a Move was built that equals the Move of the same coordinates
\* built on the other board, whose pieceMoved and pieceCaptured both differ.
C15_Witness ==
    /\ moveLog # <<>>
    /\ \E m \in {Move(moveLog[1].startRow, moveLog[1].startCol,
                      moveLog[1].endRow, moveLog[1].endCol, MirrorBoard)} :
          /\ m.pieceMoved # moveLog[1].pieceMoved
          /\ m.pieceCaptured # moveLog[1].pieceCaptured
          /\ MoveEq(m, moveLog[1])

\* The file letter of a column (column 0 is h, column 7 is a) and the rank
\* digit of a row (row 0 is 8, row 7 is 1)
FileOf(c) == <<"h", "g", "f", "e", "d", "c", "b", "a">>[c + 1]

RankOf(r) == <<"8", "7", "6", "5", "4", "3", "2", "1">>[r + 1]

\* C16: getChessNotation of a Move with coordinates in 0..7 is the four
\* characters file(startCol) rank(startRow) file(endCol) rank(endRow), and no
\* Move of other coordinates has the same notation.
C16_Notation ==
    moveLog # <<>> =>
        /\ getChessNotation(moveLog[1]) =
              <<FileOf(moveLog[1].startCol), RankOf(moveLog[1].startRow),
                FileOf(moveLog[1].endCol), RankOf(moveLog[1].endRow)>>
        /\ \A q \in Clicks \X Clicks :
              getChessNotation(Move(q[1][1], q[1][2], q[2][1], q[2][2], board))
                    = getChessNotation(moveLog[1])
                => Coords(moveLog[1]) = <<q[1][1], q[1][2], q[2][1], q[2][2]>>

\* C16 witness: the Move from (6,4) to (4,4) was built and its notation is
\* d2d4 in the mapping of the source.
C16_Witness ==
    /\ moveLog # <<>>
    /\ Coords(moveLog[1]) = <<6, 4, 4, 4>>
    /\ getChessNotation(moveLog[1]) = <<"d", "2", "d", "4">>

\* C17: whenever the first piece on a ray from the king of the side to move
\* is a friendly piece and the next one an enemy piece that attacks along the
\* ray, checksForPinsAndChecks returns the friendly piece's square with the
\* ray direction in pins, and no check for that ray.
C17_PinsRecorded ==
    Queried =>
        \E res \in {checksForPinsAndChecks(board, whiteToMove,
                        whiteKingLocation, blackKingLocation)} :
            \A d \in RayDirections : \A sq \in Squares :
                RulePinned(board, Mover, MoverKing, sq, d) =>
                    /\ \E i \in 1..Len(res.pins) :
                          res.pins[i] = <<sq[1], sq[2], d[1], d[2]>>
                    /\ \A i \in 1..Len(res.checks) :
                          <<res.checks[i][3], res.checks[i][4]>> # d

\* C18: no king move that getValidMoves returned ends on a square that an
\* enemy piece attacks once the king stands there and no longer on its
\* origin square.
C18_KingDestinationsSafe ==
    Queried =>
        \A i \in 1..Len(validMoves) :
            validMoves[i].pieceMoved = King(Mover) =>
                \E from \in {<<validMoves[i].startRow, validMoves[i].startCol>>} :
                \E to \in {<<validMoves[i].endRow, validMoves[i].endCol>>} :
                    ~RuleAttacked(RuleApply(board, from, to), to, Other(Mover))

\* The squares of the enemy pieces that attack the king square of the side to
\* move under the attack rules
Attackers ==
    {from \in Squares :
        /\ PieceColor(board[from[1]][from[2]]) = Other(Mover)
        /\ RuleAttacks(board, from, MoverKing)}

\* C19: in every position where the king of the side to move stands on its
\* cached square, checksForPinsAndChecks returns inCheck exactly when an
\* enemy piece attacks that square, inCheck exactly when checks is not
\* empty, and checks with one entry for each attacking piece.
C19_CheckDetection ==
    (error = "" /\ board[MoverKing[1]][MoverKing[2]] = King(Mover)) =>
        \E res \in {checksForPinsAndChecks(board, whiteToMove,
                        whiteKingLocation, blackKingLocation)} :
            /\ res.inCheck <=> RuleAttacked(board, MoverKing, Other(Mover))
            /\ res.inCheck <=> res.checks # <<>>
            /\ {<<res.checks[i][1], res.checks[i][2]>> : i \in 1..Len(res.checks)}
                  = Attackers
            /\ Len(res.checks) = Cardinality(Attackers)

\* C19 witness: the king of the side to move stands on its cached square and
\* is attacked by two pieces, a knight and a bishop two or more squares
\* away, and getValidMoves has recorded the two checks.
C19_Witness ==
    /\ Queried
    /\ board[MoverKing[1]][MoverKing[2]] = King(Mover)
    /\ Cardinality(Attackers) = 2
    /\ \E a, c \in Attackers :
          /\ PieceType(board[a[1]][a[2]]) = "N"
          /\ PieceType(board[c[1]][c[2]]) = "B"
          /\ Between(MoverKing, c) # {}
    /\ Len(checks) = 2
    /\ inCheck

\* C20: a getValidMoves call leaves board, whiteToMove, moveLog and both king
\* caches as they were before the call: getKingMoves puts the king cache
\* back after every destination it tries.
C20_GetValidMovesReadOnly ==
    [][ GetValidMoves =>
          UNCHANGED <<board, whiteToMove, moveLog,
                      whiteKingLocation, blackKingLocation>> ]_vars

\* C20 witness: getValidMoves has run for a king in check that stands on its
\* cached square; of the destinations getKingMoves tried one was kept and
\* one was not.
C20_Witness ==
    /\ Queried
    /\ inCheck
    /\ board[MoverKing[1]][MoverKing[2]] = King(Mover)
    /\ \E k, h \in 1..8 :
          \E kept \in {<<MoverKing[1] + kingMoves[k][1], MoverKing[2] + kingMoves[k][2]>>} :
          \E dropped \in {<<MoverKing[1] + kingMoves[h][1], MoverKing[2] + kingMoves[h][2]>>} :
              /\ KingCandidate(board, Mover, kept[1], kept[2])
              /\ KingCandidate(board, Mover, dropped[1], dropped[2])
              /\ <<MoverKing[1], MoverKing[2], kept[1], kept[2]>> \in ValidCoords
              /\ <<MoverKing[1], MoverKing[2], dropped[1], dropped[2]>> \notin ValidCoords

OriginIndex(m) == 8 * m.startRow + m.startCol

\* The place of a pawn move in the order single advance, double advance,
\* left capture (towards column 0), right capture
PawnMoveKind(m) ==
    IF m.endCol = m.startCol
    THEN (IF Abs(m.endRow - m.startRow) = 1 THEN 1 ELSE 2)
    ELSE IF m.endCol = m.startCol - 1 THEN 3 ELSE 4

\* The list getAllPossibleMoves builds in the current position
AllMoves ==
    getAllPossibleMoves(board, whiteToMove,
        checksForPinsAndChecks(board, whiteToMove,
                               whiteKingLocation, blackKingLocation).pins,
        whiteKingLocation, blackKingLocation).moves

\* ms restricted to the moves that are entries of kept, in the order of ms
Restrict(ms, kept) ==
    LET in(m) == \E i \in 1..Len(kept) : kept[i] = m
    IN SelectSeq(ms, in)

\* C22: when no check or one check was reported, the list getValidMoves
\* returned is ordered by origin square, row-major; the moves of one pawn come
\* in the order single advance, double advance, left capture, right capture;
\* and with one check the list is the getAllPossibleMoves list with moves
\* taken out, the moves kept in the order they had.
C22_DeterministicOrder ==
    (Queried /\ Len(checks) <= 1) =>
        /\ \A i, k \in 1..Len(validMoves) :
              i < k =>
                  /\ OriginIndex(validMoves[i]) <= OriginIndex(validMoves[k])
                  /\ (PieceType(validMoves[i].pieceMoved) = "p"
                        /\ OriginIndex(validMoves[i]) = OriginIndex(validMoves[k]))
                      => PawnMoveKind(validMoves[i]) < PawnMoveKind(validMoves[k])
        /\ \E all \in {AllMoves} :
              /\ validMoves = Restrict(all, validMoves)
              /\ Len(checks) = 0 => validMoves = all

\* C22 witness: one check was reported and the filter took out a move that
\* stood, in the getAllPossibleMoves list, between two moves it kept; the list
\* returned also holds moves of two different origin squares.
C22_Witness ==
    /\ Queried
    /\ Len(checks) = 1
    /\ \E all \in {AllMoves} :
          \E i, j, k \in 1..Len(all) :
              /\ i < j /\ j < k
              /\ \E n \in 1..(Len(validMoves) - 1) :
                    /\ validMoves[n] = all[i]
                    /\ validMoves[n + 1] = all[k]
                    /\ OriginIndex(all[i]) # OriginIndex(all[k])

\* C23: every move getValidMoves returned moves a piece of the side to move
\* and captures nothing or a piece of the other side; a pawn move that stays
\* on its column ends on an empty square, and a pawn move that changes column
\* captures a piece of the other side.
C23_RightMoverNoSelfCapture ==
    Queried =>
        \A i \in 1..Len(validMoves) :
            \E m \in {validMoves[i]} :
                /\ PieceColor(m.pieceMoved) = Mover
                /\ m.pieceCaptured = "--" \/ PieceColor(m.pieceCaptured) = Other(Mover)
                /\ PieceType(m.pieceMoved) = "p" =>
                      IF m.endCol = m.startCol
                      THEN m.pieceCaptured = "--"
                      ELSE PieceColor(m.pieceCaptured) = Other(Mover)

====
